---- MODULE Spec2Model ----
(***************************************************************************)
(* Model of the nms class of non_max_supression.py: ingestion (get_data),  *)
(* the IoU primitive (get_iou), the greedy suppression loop (compute_nms)  *)
(* and the writer (write_res).                                             *)
(*                                                                         *)
(* Numbers.  Every float of the program is held as an integer in fixed     *)
(* point: the float v is the integer v * Unit.  Areas are therefore held   *)
(* times Unit * Unit.  An IoU and a threshold are exact fractions          *)
(* <<numerator, denominator>>; on the grids used here the distance between *)
(* an IoU and a threshold it differs from is many orders of magnitude      *)
(* above the rounding error of a double, so the comparison of the floats   *)
(* and the comparison of the fractions agree.                              *)
(*                                                                         *)
(* Sequences are 1-based here and 0-based in the source.                   *)
(***************************************************************************)
EXTENDS Integers, Sequences, FiniteSets

VARIABLES
    file,        \* the lines last handed to get_data, each split into fields
    data,        \* self.data
    final_res,   \* self.final_res
    out,         \* the lines of the file write_res wrote
    err,         \* "none", or the exception that ended the program
    last,        \* the last method of the object that was called
    thr,         \* iou_threshold of the compute_nms call
    sorted,      \* compute_nms: sortedby_confidence_data
    indices,     \* compute_nms: sortedby_confidence_indices
    res,         \* compute_nms: res
    pc           \* compute_nms: position in the method

vars == <<file, data, final_res, out, err, last, thr, sorted, indices, res, pc>>

----------------------------------------------------------------------------
(* Bounds *)

\* Fixed-point resolution: the float v is held as v * Unit.
Unit == 2
\* Corner coordinates of the boxes of the suppression runs: 0..MaxX, 0..MaxY.
MaxX == 2
MaxY == 3
\* Scores of the suppression runs: (Unit - MaxScoreGap)..Unit, that is, up to 1.0.
MaxScoreGap == 1
\* Longest collection of the loop-level suppression runs.
MaxBoxes == 3
\* Longest collection of the threshold-comparison runs (all scores 1.0).
MonoBoxes == 4
\* Most lines of a file handed to get_data.
MaxLines == 2

----------------------------------------------------------------------------
(* Values *)

\* Python's None, and a value that is not None.
None == [none |-> TRUE, v |-> <<>>]
Some(rows) == [none |-> FALSE, v |-> rows]

SeqsUpTo(S, n) == UNION {[1..k -> S] : k \in 0..n}

Max(a, b) == IF a >= b THEN a ELSE b
Min(a, b) == IF a <= b THEN a ELSE b

\* 1 / 1e-5, the epsilon of get_iou.
EpsInv == 100000

\* The default iou_threshold, 0.5.
DefaultThreshold == <<1, 2>>

\* Thresholds of the suppression runs: 0, 1/4, 1/3, 1/2 and 1.
Thresholds == {<<0, 1>>, <<1, 4>>, <<1, 3>>, DefaultThreshold, <<1, 1>>}

\* Fractions r and t as <<numerator, denominator>>, denominators positive.
FracGt(r, t) == r[1] * t[2] > t[1] * r[2]
FracEq(r, t) == r[1] * t[2] = t[1] * r[2]
FracLt(r, t) == r[1] * t[2] < t[1] * r[2]

----------------------------------------------------------------------------
(* get_iou *)

GetIou(b1, b2) ==
    LET x1 == Max(b1[1], b2[1])
        y1 == Max(b1[2], b2[2])
        x2 == Min(b1[3], b2[3])
        y2 == Min(b1[4], b2[4])
        width == x2 - x1
        height == y2 - y1
        area_intersect == width * height
        area_b1 == (b1[3] - b1[1]) * (b1[4] - b1[2])
        area_b2 == (b2[3] - b2[1]) * (b2[4] - b2[2])
        total_area == area_b1 + area_b2 - area_intersect
    IN  IF width < 0 \/ height < 0
        THEN <<0, 1>>
        ELSE <<area_intersect * EpsInv, total_area * EpsInv + Unit * Unit>>

----------------------------------------------------------------------------
(* compute_nms *)

\* The sort key: x[-1].
Confidence(row) == row[Len(row)]

\* Insertion of row behind every row whose key is not greater: sorted() is stable.
RECURSIVE InsertByConfidence(_, _)
InsertByConfidence(rows, row) ==
    IF rows = <<>> THEN <<row>>
    ELSE IF Confidence(rows[Len(rows)]) <= Confidence(row)
         THEN Append(rows, row)
         ELSE Append(InsertByConfidence(SubSeq(rows, 1, Len(rows) - 1), row),
                     rows[Len(rows)])

RECURSIVE SortFrom(_, _)
SortFrom(acc, rows) ==
    IF rows = <<>> THEN acc
    ELSE SortFrom(InsertByConfidence(acc, Head(rows)), Tail(rows))

\* Mutant: the collection is left in input order.
SortByConfidence_Unsorted(rows) == rows

\* sorted(self.data, key=lambda x : x[-1])
SortByConfidence(rows) == SortFrom(<<>>, rows)

\* range(len(sortedby_confidence_data))
IndexRange(rows) == [k \in 1..Len(rows) |-> k]

\* Mutant: the first index, the lowest confidence, is taken.
HighestPcIndex_First(idx) == 1

\* highest_pc_index = curr_len - 1
HighestPcIndex(idx) == Len(idx)

\* ious: the best box against every box indexed by idx[:-1]
Ious(srt, idx) ==
    [k \in 1..(Len(idx) - 1) |-> GetIou(srt[idx[Len(idx)]], srt[idx[k]])]

\* Mutants: ious < iou_threshold; ious >= iou_threshold; ious > 0.5 whatever
\* threshold was passed.
OverThreshold_Reversed(iou, t) == FracLt(iou, t)
OverThreshold_OrEqual(iou, t) == FracGt(iou, t) \/ FracEq(iou, t)
OverThreshold_DefaultOnly(iou, t) == FracGt(iou, DefaultThreshold)

\* ious > iou_threshold
OverThreshold(iou, t) == FracGt(iou, t)

\* Mutant: np.where(ious)[0], every position of a non-zero IoU.
WhereOver_NonZero(ious, t) == {k \in DOMAIN ious : ious[k][1] /= 0}

\* np.where(ious > iou_threshold)[0]
WhereOver(ious, t) == {k \in DOMAIN ious : OverThreshold(ious[k], t)}

\* np.delete(seq, positions)
RECURSIVE Delete(_, _)
Delete(seq, positions) ==
    IF seq = <<>> THEN <<>>
    ELSE LET front == Delete(SubSeq(seq, 1, Len(seq) - 1), positions)
         IN  IF Len(seq) \in positions THEN front
             ELSE Append(front, seq[Len(seq)])

\* One pass of the while loop: <<indices, res>> after it.
LoopBody(srt, idx, acc, t) ==
    LET highest_pc_index == HighestPcIndex(idx)
        ious == Ious(srt, idx)
        without_best == Delete(idx, {highest_pc_index})
    IN  <<Delete(without_best, WhereOver(ious, t)), Append(acc, idx[highest_pc_index])>>

RECURSIVE WhileLoop(_, _, _, _)
WhileLoop(srt, idx, acc, t) ==
    IF Len(idx) > 0
    THEN LET nxt == LoopBody(srt, idx, acc, t)
         IN  WhileLoop(srt, nxt[1], nxt[2], t)
    ELSE acc

\* sortedby_confidence_data[res]
Gather(srt, acc) == [k \in 1..Len(acc) |-> srt[acc[k]]]

\* Mutant: the corners are left as they are.
ToWidthHeight_Kept(row) == row

\* final_res[:, 2] -= final_res[:, 0]; final_res[:, 3] -= final_res[:, 1]
ToWidthHeight(row) == [row EXCEPT ![3] = row[3] - row[1], ![4] = row[4] - row[2]]

PostProcess(rows) == [k \in 1..Len(rows) |-> ToWidthHeight(rows[k])]

\* The rows of one length make a 2-D array; rows of several lengths a 1-D array of lists.
Ragged(rows) == \E i, j \in DOMAIN rows : Len(rows[i]) /= Len(rows[j])

\* The value compute_nms leaves in self.final_res for a non-empty 2-D self.data.
NmsResult(rows, t) ==
    LET srt == SortByConfidence(rows)
    IN  PostProcess(Gather(srt, WhileLoop(srt, IndexRange(srt), <<>>, t)))

----------------------------------------------------------------------------
(* get_data *)

\* The test of the inner loop: field f at 1-based position i is skipped.
WeirdValue(f, i) ==
    f < 0 \/ ((i = 3 \/ i = 4) /\ f <= 0) \/ (i = 5 /\ f > Unit)

\* l_clean: the fields of the line that the inner loop appends.
RECURSIVE CleanFrom(_, _, _)
CleanFrom(acc, l, i) ==
    IF i > Len(l) THEN acc
    ELSE IF WeirdValue(l[i], i)
         THEN CleanFrom(acc, l, i + 1)
         ELSE CleanFrom(Append(acc, l[i]), l, i + 1)

CleanLine(l) == CleanFrom(<<>>, l, 1)

\* l_clean[2] += l_clean[0]; l_clean[3] += l_clean[1]
AddCorner(l) == [l EXCEPT ![3] = l[3] + l[1], ![4] = l[4] + l[2]]

\* The loop over the lines: the rows appended to self.data, and the exception
\* that stopped it (l_clean[2] or l_clean[3] of a list that is too short).
RECURSIVE ReadLines(_, _)
ReadLines(acc, lines) ==
    IF lines = <<>> THEN [rows |-> acc, err |-> "none"]
    ELSE LET l_clean == CleanLine(Head(lines))
         IN  IF Len(l_clean) < 4
             THEN [rows |-> acc, err |-> "IndexError"]
             ELSE ReadLines(Append(acc, AddCorner(l_clean)), Tail(lines))

----------------------------------------------------------------------------
(* write_res *)

\* int(i): truncation toward zero.
Trunc(v) == IF v >= 0 THEN v \div Unit ELSE -((-v) \div Unit)

\* One written line: every field but the last as an int, the last as it is.
FormatLine(bb) ==
    [k \in 1..Len(bb) |-> IF k < Len(bb) THEN Trunc(bb[k]) ELSE bb[k]]

FormatLines(rows) == [k \in 1..Len(rows) |-> FormatLine(rows[k])]

----------------------------------------------------------------------------
(* Inputs *)

\* Fields of the lines of a file: a negative and a valid x, a zero and a valid
\* width, a negative, a valid and a too large score.
RawX == {-1, 1}
RawY == {0}
RawW == {0, Unit}
RawH == {Unit}
RawScore == {-1, 1, Unit + 1}

Lines == {<<x, y, w, h, s>> : x \in RawX, y \in RawY, w \in RawW, h \in RawH, s \in RawScore}

Files == SeqsUpTo(Lines, MaxLines)

\* Boxes in corner form that satisfy the invariants of a Box.
Scores == (Unit - MaxScoreGap)..Unit

BoxesWith(S) ==
    {<<x1, y1, x2, y2, s>> : x1 \in 0..MaxX, y1 \in 0..MaxY,
                             x2 \in 0..MaxX, y2 \in 0..MaxY, s \in S} 

ValidBox(b) ==
    /\ Len(b) = 5
    /\ b[1] >= 0 /\ b[2] >= 0 /\ b[3] > b[1] /\ b[4] > b[2]
    /\ b[5] >= 0 /\ b[5] <= Unit

ValidBoxes(S) == {b \in BoxesWith(S) : ValidBox(b)}

----------------------------------------------------------------------------
(* The object, method by method, as the two scripts drive it *)

Init ==
    /\ file = <<>>
    /\ data = None
    /\ final_res = None
    /\ out = None
    /\ err = "none"
    /\ last = "init"
    /\ thr = DefaultThreshold
    /\ sorted = <<>>
    /\ indices = <<>>
    /\ res = <<>>
    /\ pc = "idle"

GetData(f) ==
    /\ err = "none"
    /\ pc = "idle"
    /\ file' = f
    /\ last' = "get_data"
    /\ LET r == ReadLines(<<>>, f)
       IN  /\ data' = Some(r.rows)
           /\ \/ /\ r.err /= "none"
                 /\ err' = r.err
              \/ /\ r.err = "none"
                 /\ ~Ragged(r.rows)
                 /\ err' = "none"
              \* np.array of rows of several lengths: a 1-D array of lists
              \* (NumPy before 1.24) or a ValueError (NumPy 1.24 and later)
              \/ /\ r.err = "none"
                 /\ Ragged(r.rows)
                 /\ err' \in {"none", "ValueError"}
    /\ UNCHANGED <<final_res, out, thr, sorted, indices, res, pc>>

ComputeNms(t) ==
    /\ err = "none"
    /\ pc = "idle"
    /\ last' = "compute_nms"
    /\ thr' = t
    /\ \/ /\ data.none                        \* len(None)
          /\ err' = "TypeError"
          /\ UNCHANGED final_res
       \/ /\ ~data.none
          /\ Len(data.v) = 0                  \* return []
          /\ UNCHANGED <<final_res, err>>
       \/ /\ ~data.none
          /\ Len(data.v) > 0
          /\ ~Ragged(data.v)
          /\ final_res' = Some(NmsResult(data.v, t))
          /\ UNCHANGED err
       \/ /\ ~data.none                       \* final_res[:, 2] of a 1-D array
          /\ Len(data.v) > 0
          /\ Ragged(data.v)
          /\ LET srt == SortByConfidence(data.v)
             IN  final_res' = Some(Gather(srt, WhileLoop(srt, IndexRange(srt), <<>>, t)))
          /\ err' = "IndexError"
    /\ UNCHANGED <<file, data, out, sorted, indices, res, pc>>

WriteRes ==
    /\ err = "none"
    /\ pc = "idle"
    /\ last' = "write_res"
    /\ \/ /\ final_res.none                   \* for bb in None, the file already opened
          /\ out' = Some(<<>>)
          /\ err' = "TypeError"
       \/ /\ ~final_res.none
          /\ out' = Some(FormatLines(final_res.v))
          /\ UNCHANGED err
    /\ UNCHANGED <<file, data, final_res, thr, sorted, indices, res, pc>>

Next ==
    \/ \E f \in Files : GetData(f)
    \/ ComputeNms(DefaultThreshold)
    \/ WriteRes

Spec == Init /\ [][Next]_vars

----------------------------------------------------------------------------
(* compute_nms, pass by pass, on a collection of valid boxes *)

InitNms ==
    /\ file = <<>>
    /\ data \in {Some(X) : X \in SeqsUpTo(ValidBoxes(Scores), MaxBoxes)}
    /\ final_res = None
    /\ out = None
    /\ err = "none"
    /\ last = "set_data"
    /\ thr \in Thresholds
    /\ sorted = <<>>
    /\ indices = <<>>
    /\ res = <<>>
    /\ pc = "start"

NmsBegin ==
    /\ pc = "start"
    /\ last' = "compute_nms"
    /\ \/ /\ Len(data.v) = 0
          /\ pc' = "done"
          /\ UNCHANGED <<sorted, indices>>
       \/ /\ Len(data.v) > 0
          /\ sorted' = SortByConfidence(data.v)
          /\ indices' = IndexRange(data.v)
          /\ pc' = "loop"
    /\ UNCHANGED <<file, data, final_res, out, err, thr, res>>

NmsPass ==
    /\ pc = "loop"
    /\ Len(indices) > 0
    /\ LET nxt == LoopBody(sorted, indices, res, thr)
       IN  /\ indices' = nxt[1]
           /\ res' = nxt[2]
    /\ UNCHANGED <<file, data, final_res, out, err, last, thr, sorted, pc>>

NmsEnd ==
    /\ pc = "loop"
    /\ Len(indices) = 0
    /\ final_res' = Some(PostProcess(Gather(sorted, res)))
    /\ pc' = "done"
    /\ UNCHANGED <<file, data, out, err, last, thr, sorted, indices, res>>

NextNms == NmsBegin \/ NmsPass \/ NmsEnd

SpecNms == InitNms /\ [][NextNms]_vars

----------------------------------------------------------------------------------------------------------------------------------------
(* compute_nms, pass by pass, on longer collections of boxes of score 1.0 *)

InitMono ==
    /\ file = <<>>
    /\ data \in {Some(X) : X \in SeqsUpTo(ValidBoxes({Unit}), MonoBoxes)}
    /\ final_res = None
    /\ out = None
    /\ err = "none"
    /\ last = "set_data"
    /\ thr \in Thresholds
    /\ sorted = <<>>
    /\ indices = <<>>
    /\ res = <<>>
    /\ pc = "start"

SpecMono == InitMono /\ [][NextNms]_vars

----------------------------------------------------------------------------
(* Vocabulary of the properties *)

Range(seq) == {seq[k] : k \in DOMAIN seq}

Count(seq, e) == Cardinality({k \in DOMAIN seq : seq[k] = e})

SameBag(s1, s2) ==
    /\ Len(s1) = Len(s2)
    /\ \A k \in DOMAIN s1 : Count(s1, s1[k]) = Count(s2, s1[k])

\* Output rows (x, y, w, h, score) taken back to corner form.
AsCorners(rows) == [k \in DOMAIN rows |-> AddCorner(rows[k])]

NonIncreasingScores(rows) ==
    \A a, b \in DOMAIN rows : a < b => rows[a][5] >= rows[b][5]

DistinctScores(rows) ==
    \A a, b \in DOMAIN rows : a /= b => rows[a][5] /= rows[b][5]

\* The IoU of two corner boxes is strictly above t.
Overlap(b1, b2, t) == FracGt(GetIou(b1, b2), t)

\* compute_nms has run to its end on a non-empty collection.
Finished == pc = "done" /\ ~final_res.none

One == <<1, 1>>

----------------------------------------------------------------------------
(* C1 *)

\* C1 as stated: for thresholds t1 < t2, suppression at t1 returns at most as
\* many boxes as suppression at t2.
C1_MonotoneAsStated ==
    Finished =>
        \A t2 \in Thresholds :
            FracLt(thr, t2) => Len(final_res.v) <= Len(NmsResult(data.v, t2))

\* C1 (amended): for thresholds t1 < t2, suppression at t1 returns at most as
\* many boxes as suppression at t2 when the collection has at most three boxes
\* or when t2 is 1 (where every box is returned).
C1_MonotoneUpToThree ==
    Finished =>
        \A t2 \in Thresholds :
            (FracLt(thr, t2) /\ (Len(data.v) <= 3 \/ FracEq(t2, One))) =>
                /\ Len(final_res.v) <= Len(NmsResult(data.v, t2))
                /\ FracEq(t2, One) => Len(NmsResult(data.v, t2)) = Len(data.v)

C1_Witness ==
    /\ Finished
    /\ Len(data.v) = 3
    /\ Len(final_res.v) = 1
    /\ \E t2, t3 \in Thresholds :
          /\ FracLt(thr, t2) /\ FracLt(t2, t3) /\ FracLt(t3, One)
          /\ Len(NmsResult(data.v, t2)) = 2
          /\ Len(NmsResult(data.v, t3)) = 3

----------------------------------------------------------------------------
(* C2 *)

\* The result of compute_nms on the result, taken back to corner form.
Resuppressed == NmsResult(AsCorners(final_res.v), thr)

\* C2 as stated: suppressing the result again gives the same ordered sequence,
\* equal scores included.
C2_IdempotentAsStated == Finished => Resuppressed = final_res.v

\* C2 (amended): suppressing the result again gives the same boxes, each as
\* often; in the same order when no two boxes of the result have equal scores.
C2_IdempotentUpToTies ==
    Finished =>
        /\ SameBag(Resuppressed, final_res.v)
        /\ DistinctScores(final_res.v) => Resuppressed = final_res.v

C2_Witness ==
    /\ Finished
    /\ Len(data.v) = 3
    /\ Len(final_res.v) = 2
    /\ DistinctScores(final_res.v)
    /\ Resuppressed = final_res.v

----------------------------------------------------------------------------
(* C5 *)

\* C5: no two boxes of the result have an IoU above the threshold, and in the
\* loop no remaining index has an IoU above the threshold with an accepted box.
C5_NoOverlappingSurvivors ==
    /\ pc \in {"loop", "done"} =>
          \A i \in Range(indices), j \in Range(res) :
              ~Overlap(sorted[i], sorted[j], thr)
    /\ Finished =>
          \A a, b \in DOMAIN final_res.v :
              a /= b => ~Overlap(AddCorner(final_res.v[a]), AddCorner(final_res.v[b]), thr)

C5_Witness ==
    /\ pc = "loop"
    /\ Len(res) = 1
    /\ Len(indices) = 1
    /\ Len(sorted) = 3
    /\ FracGt(GetIou(sorted[indices[1]], sorted[res[1]]), <<0, 1>>)

----------------------------------------------------------------------------
(* C6 *)

NoPairOver(rows, t) ==
    \A i, j \in DOMAIN rows : i < j => ~Overlap(rows[i], rows[j], t)

\* C6: when no two boxes of the collection have an IoU above the threshold,
\* the result holds every box of the collection exactly once, by descending score.
C6_NonOverlappingInvariance ==
    (Finished /\ NoPairOver(data.v, thr)) =>
        /\ SameBag(AsCorners(final_res.v), data.v)
        /\ NonIncreasingScores(final_res.v)

C6_Witness ==
    /\ Finished
    /\ Len(data.v) = 3
    /\ NoPairOver(data.v, thr)
    /\ \E i, j \in DOMAIN data.v : i < j /\ FracEq(GetIou(data.v[i], data.v[j]), thr)
    /\ data.v[1][5] < data.v[2][5]
    /\ Len(final_res.v) = 3

----------------------------------------------------------------------------
(* C7 *)

\* C7: the first box of the result is a box of the collection whose score is
\* the maximum score of the collection.
C7_HighestConfidenceFirst ==
    Finished =>
        /\ AddCorner(final_res.v[1]) \in Range(data.v)
        /\ \A k \in DOMAIN data.v : final_res.v[1][5] >= data.v[k][5]

C7_Witness ==
    /\ Finished
    /\ Len(data.v) = 3
    /\ data.v[1][5] > data.v[2][5]
    /\ data.v[1][5] > data.v[3][5]
    /\ final_res.v[1] = ToWidthHeight(data.v[1])
    /\ Len(final_res.v) = 2

----------------------------------------------------------------------------
(* C8 *)

\* C8: the result lists the accepted boxes in the order of acceptance, and the
\* scores along it never increase.
C8_AcceptanceOrder ==
    Finished =>
        /\ Len(final_res.v) = Len(res)
        /\ \A k \in DOMAIN res : AddCorner(final_res.v[k]) = sorted[res[k]]
        /\ NonIncreasingScores(final_res.v)

C8_Witness ==
    /\ Finished
    /\ Len(final_res.v) = 3
    /\ data.v[1][5] > data.v[2][5]
    /\ data.v[3][5] > data.v[2][5]

----------------------------------------------------------------------------
(* C9 *)

\* C9: every box of the collection that the result lacks has an IoU above the
\* threshold with a box of the result whose score is at least its own.
C9_DiscardedOnlyByOverlap ==
    Finished =>
        \A k \in DOMAIN data.v :
            Count(AsCorners(final_res.v), data.v[k]) < Count(data.v, data.v[k]) =>
                \E a \in DOMAIN final_res.v :
                    /\ final_res.v[a][5] >= data.v[k][5]
                    /\ Overlap(data.v[k], AddCorner(final_res.v[a]), thr)

C9_Witness ==
    /\ Finished
    /\ Len(data.v) = 3
    /\ Len(final_res.v) = 2
    /\ \E k \in DOMAIN data.v :
          /\ Count(AsCorners(final_res.v), data.v[k]) = 0
          /\ \E a, b \in DOMAIN final_res.v :
                /\ Overlap(data.v[k], AddCorner(final_res.v[a]), thr)
                /\ ~Overlap(data.v[k], AddCorner(final_res.v[b]), thr)
                /\ FracGt(GetIou(data.v[k], AddCorner(final_res.v[b])), <<0, 1>>)

----------------------------------------------------------------------------
(* C3 *)

\* A record that satisfies the ingestion contract.
ValidRecord(l) ==
    /\ l[1] >= 0 /\ l[2] >= 0 /\ l[3] > 0 /\ l[4] > 0
    /\ l[5] >= 0 /\ l[5] <= Unit

\* C3: get_data stores exactly the valid records, in input order and in corner
\* form, and an invalid record disturbs nothing.
C3_InvalidRecordsDropped ==
    last = "get_data" =>
        /\ err = "none"
        /\ data = Some(AsCorners(SelectSeq(file, ValidRecord)))

----------------------------------------------------------------------------
(* C4 *)

\* C4: on an empty collection compute_nms and write_res end without an error,
\* the result is an empty sequence and no record is written.
C4_EmptyInputNoError ==
    (data = Some(<<>>) /\ file = <<>> /\ last \in {"compute_nms", "write_res"}) =>
        /\ err = "none"
        /\ final_res = Some(<<>>)
        /\ last = "write_res" => out = Some(<<>>)

----------------------------------------------------------------------------
(* C10 *)

\* An earlier compute_nms call has left a result of well-formed boxes.
EarlierResult ==
    /\ ~final_res.none
    /\ \A k \in DOMAIN final_res.v : Len(final_res.v[k]) = 5

\* C10: a compute_nms call made when an earlier call has left a result leaves
\* the result of its own data and threshold: empty for an empty collection.
C10_CallsIndependent ==
    [][(last' = "compute_nms" /\ err' = "none" /\ EarlierResult) =>
          final_res' = IF data'.v = <<>> THEN Some(<<>>)
                       ELSE Some(NmsResult(data'.v, thr'))]_vars

====
